---- MODULE Spec2Model ----
(***************************************************************************)
(* Model of onnx/export/export_acoustic.py: the export() driver, the       *)
(* construction / checkpoint load / buffer migration of GaussianDiffusion  *)
(* and its sampling loop (GaussianDiffusion.forward) with the ancestral    *)
(* (NaiveNoisePredictor) and multi-step (PLMSNoisePredictor) predictors.   *)
(*                                                                         *)
(* Tensors are symbolic.  Inside one forward call every tensor the loop     *)
(* binds to a local variable is named by that variable and the iteration   *)
(* that bound it (<<"noise_pred", 3>> is noise_pred of the 3rd iteration,  *)
(* <<"x", 0>> the initial torch.randn sample), and the call's trace keeps, *)
(* per iteration, the expression each local was computed with.  The        *)
(* denoising network, the coefficient lookups and the float arithmetic are *)
(* free function symbols, so two expressions are equal only when they      *)
(* apply the same operations to the same operands.  The only arithmetic    *)
(* identities applied are the exact ones: a - a = 0, 0 * a = 0, 1 * a = a   *)
(* and a + 0 = a.                                                          *)
(***************************************************************************)
EXTENDS Integers, Sequences, FiniteSets, TLC

VARIABLES
    hparams,   \* the hyperparameter dictionary read by set_hparams()
    Onnx,      \* the Onnx argument of export(), passed on to forward
    pc,        \* position of export() / build_diff_model()
    events,    \* the calls made on the diffusion model so far, in order
    diff,      \* the GaussianDiffusion module and its three sub-modules
    run        \* the local state of each GaussianDiffusion.forward call

vars == <<hparams, Onnx, pc, events, diff, run>>

----------------------------------------------------------------------------
(* Bounds of the model *)

MaxK == 9
MaxSpeedup == 3

(* speedup = torch.tensor(10, ...) in export() *)
ExportSpeedup == 10

(* the forward calls the model follows *)
Calls == {1, 2}
KSteps == 1..MaxK
(* timesteps=hparams['timesteps']: the length of the schedule, independent *)
(* of K_step                                                               *)
Timesteps == {MaxK \div 2, MaxK}
Speedups == (1..MaxSpeedup) \cup {ExportSpeedup}
MultiSpeedups == {n \in Speedups : n > 1}

----------------------------------------------------------------------------
(* Symbolic tensors *)

Zero == <<"0">>
One == <<"1">>
None == <<"none">>
Half == <<"0.5">>
Const(n) == <<"const", n>>

(* the tensor bound to local variable v in iteration i of a forward call *)
Name(v, i) == <<v, i>>

Sub(a, b) == IF a = b THEN Zero ELSE <<"sub", a, b>>
Mul(a, b) == IF a = Zero \/ b = Zero THEN Zero
             ELSE IF a = One THEN b
             ELSE IF b = One THEN a
             ELSE <<"mul", a, b>>
Add(a, b) == IF b = Zero THEN a ELSE IF a = Zero THEN b ELSE <<"add", a, b>>
Div(a, b) == <<"div", a, b>>
Sqrt(a) == <<"sqrt", a>>
Exp(a) == <<"exp", a>>
Clamp(a, lo, hi) == <<"clamp", a, lo, hi>>

(* the values torch.randn / torch.rand can return *)
InitialNoise == {<<"randn", "a">>, <<"randn", "b">>}
Conds == {<<"rand", "a">>, <<"rand", "b">>}
Draws == {<<"randn_like", "a">>, <<"randn_like", "b">>}
(* the (x, condition) pairs a forward call can start from *)
AllInputs == [x0 : InitialNoise, cond : Conds]

----------------------------------------------------------------------------
(* Buffers *)

NaiveBuffers == {"sqrt_recip_alphas_cumprod", "sqrt_recipm1_alphas_cumprod",
                 "posterior_log_variance_clipped", "posterior_mean_coef1",
                 "posterior_mean_coef2"}
PlmsBuffers == {"alphas_cumprod"}
MelBuffers == {"spec_min", "spec_max"}
MovedBuffers == NaiveBuffers \cup PlmsBuffers \cup MelBuffers

Absent == <<"absent">>
Buf(name, origin) == <<"buffer", name, origin>>

(* The buffer sets a checkpoint may carry: load_ckpt(..., strict=False)     *)
(* overwrites the buffers the checkpoint names and leaves the others.      *)
CkptBufferSets == {{}, MovedBuffers}

(* def extract(a, t): a[t].reshape((1, 1, 1, 1)) *)
extract(a, t) == <<"extract", a, t>>
(* a[t] on an array of length L is defined for -L <= t < L: it raises      *)
(* IndexError on cpu tensors and trips a device-side assert on cuda ones   *)
InBounds(L, t) == -L <= t /\ t < L

----------------------------------------------------------------------------
(* NaiveNoisePredictor *)

clip_min == Const(-1)
clip_max == Const(1)

(* nonzero_mask = ((t > 0).float()) : no noise when t == 0 *)
(* faulty variant: the mask never vanishes *)
NonzeroMaskAlways(t) == One
NonzeroMask(t) == IF t > 0 THEN One ELSE Zero

(* NaiveNoisePredictor.forward(x, noise_pred, t); noise is the value       *)
(* torch.randn_like(x) returns inside the call; nb are the module's buffers *)
NaiveForward(nb, x, noise_pred, t, noise) ==
    LET x_recon0 == Sub(Mul(extract(nb["sqrt_recip_alphas_cumprod"], t), x),
                        Mul(extract(nb["sqrt_recipm1_alphas_cumprod"], t), noise_pred))
        x_recon == Clamp(x_recon0, clip_min, clip_max)
        model_mean == Add(Mul(extract(nb["posterior_mean_coef1"], t), x_recon),
                          Mul(extract(nb["posterior_mean_coef2"], t), x))
        model_log_variance == extract(nb["posterior_log_variance_clipped"], t)
    IN  Add(model_mean,
            Mul(Mul(NonzeroMask(t), Exp(Mul(Half, model_log_variance))), noise))

----------------------------------------------------------------------------
(* PLMSNoisePredictor *)

(* PLMSNoisePredictor.forward(x, noise_t, t, t_prev); alphas is the        *)
(* module's alphas_cumprod buffer                                          *)
PLMSForward(alphas, x, noise_t, t, t_prev) ==
    LET a_t == extract(alphas, t)
        a_prev == extract(alphas, t_prev)
        a_t_sq == Sqrt(a_t)
        a_prev_sq == Sqrt(a_prev)
        x_delta ==
            Mul(Sub(a_prev, a_t),
                Sub(Mul(Div(One, Mul(a_t_sq, Add(a_t_sq, a_prev_sq))), x),
                    Mul(Div(One, Mul(a_t_sq,
                                     Add(Sqrt(Mul(Sub(One, a_prev), a_t)),
                                         Sqrt(Mul(Sub(One, a_t), a_prev))))),
                        noise_t)))
    IN  Add(x, x_delta)

(* Python's noise_list[-j] *)
NegIndex(s, j) == s[Len(s) - j + 1]

predict_stage0(noise_pred, noise_pred_prev) ==
    Div(Add(noise_pred, noise_pred_prev), Const(2))

predict_stage1(noise_pred, noise_list) ==
    Div(Sub(Mul(noise_pred, Const(3)), NegIndex(noise_list, 1)), Const(2))

predict_stage2(noise_pred, noise_list) ==
    Div(Add(Sub(Mul(noise_pred, Const(23)),
                Mul(NegIndex(noise_list, 1), Const(16))),
            Mul(NegIndex(noise_list, 2), Const(5))),
        Const(12))

(* faulty variant: the two most recent history entries swapped *)
predict_stage3Swapped(noise_pred, noise_list) ==
    Div(Sub(Add(Sub(Mul(noise_pred, Const(55)),
                    Mul(NegIndex(noise_list, 2), Const(59))),
                Mul(NegIndex(noise_list, 1), Const(37))),
            Mul(NegIndex(noise_list, 3), Const(9))),
        Const(24))
predict_stage3(noise_pred, noise_list) ==
    Div(Sub(Add(Sub(Mul(noise_pred, Const(55)),
                    Mul(NegIndex(noise_list, 1), Const(59))),
                Mul(NegIndex(noise_list, 2), Const(37))),
            Mul(NegIndex(noise_list, 3), Const(9))),
        Const(24))

----------------------------------------------------------------------------
(* MelExtractor.forward(x): x * (max - min) / 2 + (max + min) / 2 *)
MelForward(mb, x) ==
    LET x1 == <<"squeeze_permute", x>>
        d == Div(Sub(mb["spec_max"], mb["spec_min"]), Const(2))
        m == Div(Add(mb["spec_max"], mb["spec_min"]), Const(2))
    IN  Add(Mul(x1, d), m)

(* DiffNet.forward(spec, diffusion_step, cond) with the given weights *)
denoise_fn(weights, x, t, cond) == <<"denoise_fn", weights, x, t, cond>>

----------------------------------------------------------------------------
(* GaussianDiffusion.forward: the pieces of the sampling loop *)

(* torch.arange(start, end, step) *)
Arange(start, end, step) ==
    LET n == IF end > start THEN (end - start + step - 1) \div step ELSE 0
    IN  [i \in 1..n |-> start + (i - 1) * step]

Flip(s) == [i \in 1..Len(s) |-> s[Len(s) + 1 - i]]

(* step_range = torch.arange(0, self.K_step, speedup).flip(0) *)
(* faulty variants: an inclusive upper end; no flip *)
StepRangeInclusive(K_step, speedup) == Flip(Arange(0, K_step + 1, speedup))
StepRangeAscending(K_step, speedup) == Arange(0, K_step, speedup)
StepRange(K_step, speedup) == Flip(Arange(0, K_step, speedup))

(* t_prev = t - speedup; t_prev = t_prev * (t_prev > 0) *)
(* faulty variant: the clamp at zero left out *)
TPrevUnclamped(t, speedup) == t - speedup
TPrev(t, speedup) == (t - speedup) * (IF t - speedup > 0 THEN 1 ELSE 0)

(* if speedup > 1: ... else: ... *)
(* faulty variant: an off-by-one threshold *)
UsePlmsAbove2(speedup) == speedup > 2
UsePlms(speedup) == speedup > 1

(* plms_noise_stage = torch.tensor(0); noise_list = torch.zeros((0, ...)) *)
(* faulty variant: stage and history kept from another call *)
StalePlmsState == [stage |-> run[1].stage, noise_list |-> run[1].noise_list]
FreshPlmsState == [stage |-> 0, noise_list |-> <<>>]

(* the staged combine, lines 398-420, for stages 1..3 *)
Combine(stage, noise_pred, noise_list) ==
    IF stage = 1 THEN predict_stage1(noise_pred, noise_list)
    ELSE IF stage = 2 THEN predict_stage2(noise_pred, noise_list)
    ELSE predict_stage3(noise_pred, noise_list)

(* the history update, lines 422-427 *)
(* faulty variant: the oldest entry is never dropped *)
HistoryKeepAll(stage, noise_list, noise_pred) ==
    [stage |-> IF stage < 3 THEN stage + 1 ELSE stage,
     noise_list |-> Append(noise_list, noise_pred)]
HistoryUpdate(stage, noise_list, noise_pred) ==
    IF stage < 3
    THEN [stage |-> stage + 1, noise_list |-> Append(noise_list, noise_pred)]
    ELSE [stage |-> stage,
          noise_list |-> Append(SubSeq(noise_list, Len(noise_list) - 1, Len(noise_list)),
                                noise_pred)]

(* if plms_noise_stage == 0: if Onnx: torch.onnx.export(plms_noise_predictor) *)
(* faulty variant: exported in every iteration *)
ExportsPredictorAlways(stage, onnx) == onnx
ExportsPredictor(stage, onnx) == stage = 0 /\ onnx

----------------------------------------------------------------------------
(* The diffusion model: GaussianDiffusion and its sub-modules *)

NoBuffers(S) == [n \in S |-> Absent]

NoModel ==
    [built |-> FALSE, loaded |-> FALSE, migrations |-> 0,
     own |-> NoBuffers(MovedBuffers), naive |-> NoBuffers(NaiveBuffers),
     plms |-> NoBuffers(PlmsBuffers), mel |-> NoBuffers(MelBuffers),
     weights |-> Absent, K_step |-> 0, num_timesteps |-> 0, mel_bins |-> 0,
     device |-> "none"]

(* GaussianDiffusion.__init__ followed by model.eval() *)
Constructed(hp) ==
    [NoModel EXCEPT !.built = TRUE,
                    !.own = [n \in MovedBuffers |-> Buf(n, "init")],
                    !.weights = <<"weights", "init">>,
                    !.K_step = hp.K_step,
                    !.num_timesteps = hp.timesteps,
                    !.mel_bins = hp.audio_num_mel_bins,
                    !.device = "cpu"]

(* load_ckpt(model, work_dir, 'model', strict=False) with a checkpoint that *)
(* carries the buffers in S                                                 *)
Loaded(d, S) ==
    [d EXCEPT !.loaded = TRUE,
              !.weights = <<"weights", "ckpt">>,
              !.own = [n \in MovedBuffers |->
                          IF n \in S /\ d.own[n] # Absent THEN Buf(n, "ckpt")
                          ELSE d.own[n]]]

(* GaussianDiffusion.build_submodules *)
(* faulty variant: posterior_mean_coef2 registered with coef1's value *)
MigratedSwapCoef(d) ==
    [d EXCEPT !.migrations = @ + 1,
              !.naive = [n \in NaiveBuffers |->
                            IF n = "posterior_mean_coef2"
                            THEN d.own["posterior_mean_coef1"] ELSE d.own[n]],
              !.plms = [n \in PlmsBuffers |-> d.own[n]],
              !.mel = [n \in MelBuffers |-> d.own[n]],
              !.own = NoBuffers(MovedBuffers)]
Migrated(d) ==
    [d EXCEPT !.migrations = @ + 1,
              !.naive = [n \in NaiveBuffers |-> d.own[n]],
              !.plms = [n \in PlmsBuffers |-> d.own[n]],
              !.mel = [n \in MelBuffers |-> d.own[n]],
              !.own = NoBuffers(MovedBuffers)]

(* the statements of build_diff_model, in order *)
(* faulty variant: migration before the checkpoint load *)
BuildDiffOrderMigrateFirst == <<"construct", "build_submodules", "load_ckpt", "to">>
BuildDiffOrder == <<"construct", "load_ckpt", "build_submodules", "to">>

----------------------------------------------------------------------------
(* One forward call *)

IdleRun ==
    [pc |-> "idle", speedup |-> 0, cond |-> None, x0 |-> None, x |-> None,
     step_range |-> <<>>, idx |-> 1, stage |-> 0, noise_list |-> <<>>,
     trace |-> <<>>, net_calls |-> 0, naive_calls |-> 0, plms_calls |-> 0,
     exports |-> <<>>, mel |-> None]

Raised == [at |-> "raised", step |-> 0]

Init ==
    /\ hparams \in [K_step : KSteps,
                    timesteps : Timesteps,
                    audio_num_mel_bins : {128},
                    use_midi : {"absent", "true", "false"},
                    use_pitch_embed : BOOLEAN,
                    f0_embed_type : {"discrete", "continuous", "log"}]
    /\ Onnx \in BOOLEAN
    /\ pc = [at |-> "entry", step |-> 0]
    /\ events = <<>>
    /\ diff = NoModel
    /\ run = [c \in Calls |-> IdleRun]

(* if hparams.get('use_midi', True) or not hparams['use_pitch_embed'] *)
(* faulty variant: use_midi defaults to False when absent *)
MidiLessRejectedDefaultFalse(hp) == hp.use_midi = "true" \/ ~hp.use_pitch_embed
MidiLessRejected(hp) == hp.use_midi \in {"absent", "true"} \/ ~hp.use_pitch_embed

(* export(): set_hparams and the MIDI-less check *)
EntryRaise ==
    /\ pc.at = "entry"
    /\ MidiLessRejected(hparams)
    /\ pc' = Raised
    /\ events' = Append(events, "NotImplementedError")
    /\ UNCHANGED <<hparams, Onnx, diff, run>>

EntryOk ==
    /\ pc.at = "entry"
    /\ ~MidiLessRejected(hparams)
    /\ pc' = [at |-> "build_fs2", step |-> 0]
    /\ UNCHANGED <<hparams, Onnx, events, diff, run>>

(* build_fs2_model: FastSpeech2MIDILess.__init__, eval, load_ckpt, to *)
BuildFs2Raise ==
    /\ pc.at = "build_fs2"
    /\ hparams.f0_embed_type \notin {"discrete", "continuous"}
    /\ pc' = Raised
    /\ events' = Append(events, "ValueError")
    /\ UNCHANGED <<hparams, Onnx, diff, run>>

BuildFs2Ok ==
    /\ pc.at = "build_fs2"
    /\ hparams.f0_embed_type \in {"discrete", "continuous"}
    /\ pc' = [at |-> "build_diff", step |-> 1]
    /\ events' = Append(events, "load_ckpt_fs2")
    /\ UNCHANGED <<hparams, Onnx, diff, run>>

(* build_diff_model, one statement at a time *)
AfterBuildStep ==
    IF pc.step = Len(BuildDiffOrder) THEN [at |-> "encoder", step |-> 0]
    ELSE [at |-> "build_diff", step |-> pc.step + 1]

AtBuildStep(op) ==
    /\ pc.at = "build_diff"
    /\ BuildDiffOrder[pc.step] = op

DiffConstruct ==
    /\ AtBuildStep("construct")
    /\ diff' = Constructed(hparams)
    /\ events' = Append(events, "construct")
    /\ pc' = AfterBuildStep
    /\ UNCHANGED <<hparams, Onnx, run>>

DiffLoadCkpt ==
    /\ AtBuildStep("load_ckpt")
    /\ \E S \in CkptBufferSets : diff' = Loaded(diff, S)
    /\ events' = Append(events, "load_ckpt")
    /\ pc' = AfterBuildStep
    /\ UNCHANGED <<hparams, Onnx, run>>

(* model.build_submodules(); reading a buffer the orchestrator does not    *)
(* hold raises AttributeError                                              *)
DiffBuildSubmodules ==
    /\ AtBuildStep("build_submodules")
    /\ IF \A n \in MovedBuffers : diff.own[n] # Absent
       THEN /\ diff' = Migrated(diff)
            /\ events' = Append(events, "build_submodules")
            /\ pc' = AfterBuildStep
       ELSE /\ diff' = diff
            /\ events' = Append(events, "AttributeError")
            /\ pc' = Raised
    /\ UNCHANGED <<hparams, Onnx, run>>

(* model.to(device); the forward pass calls .cuda(), so the device is cuda *)
DiffToDevice ==
    /\ AtBuildStep("to")
    /\ diff' = [diff EXCEPT !.device = "cuda"]
    /\ events' = Append(events, "to")
    /\ pc' = AfterBuildStep
    /\ UNCHANGED <<hparams, Onnx, run>>

(* export(): the encoder graph, lines 536-548 *)
ExportEncoder ==
    /\ pc.at = "encoder"
    /\ events' = IF Onnx THEN Append(events, "export_encoder") ELSE events
    /\ pc' = [at |-> "sample", step |-> 0]
    /\ UNCHANGED <<hparams, Onnx, diff, run>>

----------------------------------------------------------------------------
(* GaussianDiffusion.forward(condition, speedup, Onnx, project_name) *)

Export(graph, i) == [graph |-> graph, iter |-> i]

(* x is a local of forward: each call reads and writes its own *)
(* faulty variant: x kept on the module and shared by the calls *)
WorkingSampleShared(c) == run[1].x
WorkingSample(c) == run[c].x

(* lines 368-392: step_range, x = torch.randn(...), and on the multi-step  *)
(* path the export of the denoising network and the empty history         *)
ForwardBegin(c, speedups, inputs) ==
    /\ pc.at = "sample"
    /\ run[c].pc = "idle"
    /\ \E speedup \in speedups, inp \in inputs :
          LET step_range == StepRange(diff.K_step, speedup)
              plms == UsePlms(speedup)
              st == IF plms THEN FreshPlmsState ELSE [stage |-> 0, noise_list |-> <<>>]
          IN  run' = [run EXCEPT ![c] =
                        [IdleRun EXCEPT
                            !.pc = "loop", !.speedup = speedup, !.cond = inp.cond,
                            !.x0 = inp.x0, !.x = Name("x", 0),
                            !.step_range = step_range,
                            !.stage = st.stage, !.noise_list = st.noise_list,
                            !.exports = IF plms /\ Onnx
                                        THEN <<Export("denoise", 0)>> ELSE <<>>]]
    /\ events' = Append(events, "forward")
    /\ UNCHANGED <<hparams, Onnx, pc, diff>>

(* a forward call made while no other call is inside forward *)
ForwardStart(c, speedups) ==
    /\ \A d \in Calls \ {c} : run[d].pc \in {"idle", "done"}
    /\ ForwardBegin(c, speedups, AllInputs)

(* one iteration of the multi-step loop, lines 393-428 *)
PlmsIter(c) ==
    LET r == run[c]
        i == r.idx
        t == r.step_range[i]
        t_prev == TPrev(t, r.speedup)
        alphas == diff.plms["alphas_cumprod"]
        noise_pred == Name("noise_pred", i)
        first == r.stage = 0
        exported == ExportsPredictor(r.stage, Onnx)
        upd == HistoryUpdate(r.stage, r.noise_list, noise_pred)
        rec == [t |-> t, t_prev |-> t_prev, stage |-> r.stage,
                noise_list |-> r.noise_list, x |-> WorkingSample(c),
                noise_pred |-> denoise_fn(diff.weights, WorkingSample(c), t, r.cond),
                x_pred |-> IF first
                           THEN PLMSForward(alphas, WorkingSample(c), noise_pred,
                                            t, t_prev)
                           ELSE None,
                noise_pred_prev |->
                    IF first
                    THEN denoise_fn(diff.weights, Name("x_pred", i), t_prev, r.cond)
                    ELSE None,
                noise_pred_prime |->
                    IF first
                    THEN predict_stage0(noise_pred, Name("noise_pred_prev", i))
                    ELSE Combine(r.stage, noise_pred, r.noise_list),
                noise |-> None,
                x_next |-> PLMSForward(alphas, WorkingSample(c),
                                       Name("noise_pred_prime", i),
                                       t, t_prev)]
    IN  /\ pc.at = "sample"
        /\ r.pc = "loop"
        /\ UsePlms(r.speedup)
        /\ i <= Len(r.step_range)
        /\ IF alphas = Absent
           THEN /\ run' = [run EXCEPT ![c] = [r EXCEPT !.pc = "raised"]]
                /\ pc' = Raised
                /\ events' = Append(events, "AttributeError")
           ELSE IF InBounds(diff.num_timesteps, t) /\ InBounds(diff.num_timesteps, t_prev)
           THEN /\ run' = [run EXCEPT ![c] =
                    [r EXCEPT !.idx = i + 1,
                              !.x = Name("x", i),
                              !.stage = upd.stage,
                              !.noise_list = upd.noise_list,
                              !.trace = Append(r.trace, rec),
                              !.net_calls = @ + (IF first THEN 2 ELSE 1),
                              !.plms_calls = @ + (IF first THEN 2 ELSE 1),
                              !.exports = IF exported
                                          THEN Append(@, Export("pred", i)) ELSE @]]
                /\ UNCHANGED <<pc, events>>
           ELSE /\ run' = [run EXCEPT ![c] = [r EXCEPT !.pc = "raised"]]
                /\ pc' = Raised
                /\ events' = Append(events, "IndexError")
        /\ UNCHANGED <<hparams, Onnx, diff>>

(* one iteration of the ancestral loop, lines 430-432 *)
NaiveIterDrawing(c, draws) ==
    LET r == run[c]
        i == r.idx
        t == r.step_range[i]
        pred == Name("pred", i)
    IN  /\ pc.at = "sample"
        /\ r.pc = "loop"
        /\ ~UsePlms(r.speedup)
        /\ i <= Len(r.step_range)
        /\ IF \E n \in NaiveBuffers : diff.naive[n] = Absent
           THEN /\ run' = [run EXCEPT ![c] = [r EXCEPT !.pc = "raised"]]
                /\ pc' = Raised
                /\ events' = Append(events, "AttributeError")
           ELSE IF InBounds(diff.num_timesteps, t)
           THEN /\ \E noise \in draws :
                    run' = [run EXCEPT ![c] =
                        [r EXCEPT !.idx = i + 1,
                                  !.x = Name("x", i),
                                  !.trace = Append(r.trace,
                                      [t |-> t, t_prev |-> t, stage |-> r.stage,
                                       noise_list |-> r.noise_list, x |-> WorkingSample(c),
                                       noise_pred |-> denoise_fn(diff.weights,
                                                        WorkingSample(c), t, r.cond),
                                       x_pred |-> None, noise_pred_prev |-> None,
                                       noise_pred_prime |-> None,
                                       noise |-> noise,
                                       x_next |-> NaiveForward(diff.naive, WorkingSample(c), pred,
                                                               t, noise)]),
                                  !.net_calls = @ + 1,
                                  !.naive_calls = @ + 1]]
                /\ UNCHANGED <<pc, events>>
           ELSE /\ run' = [run EXCEPT ![c] = [r EXCEPT !.pc = "raised"]]
                /\ pc' = Raised
                /\ events' = Append(events, "IndexError")
        /\ UNCHANGED <<hparams, Onnx, diff>>

NaiveIter(c) == NaiveIterDrawing(c, Draws)

(* lines 433-446: the export of the rescaler and mel = mel_extractor(x) *)
ForwardFinish(c) ==
    LET r == run[c]
    IN  /\ pc.at = "sample"
        /\ r.pc = "loop"
        /\ r.idx > Len(r.step_range)
        /\ IF \A n \in MelBuffers : diff.mel[n] # Absent
           THEN /\ run' = [run EXCEPT ![c] =
                    [r EXCEPT !.pc = "done",
                              !.mel = MelForward(diff.mel, WorkingSample(c)),
                              !.exports = IF Onnx THEN Append(@, Export("after", r.idx))
                                          ELSE @]]
                /\ events' = Append(events, "forward_return")
                /\ pc' = pc
           ELSE /\ run' = [run EXCEPT ![c] = [r EXCEPT !.pc = "raised"]]
                /\ pc' = Raised
                /\ events' = Append(events, "AttributeError")
        /\ UNCHANGED <<hparams, Onnx, diff>>

(* export(): dummy = diffusion.forward(...) has returned, line 554 *)
ExportReturn ==
    /\ pc.at = "sample"
    /\ run[1].pc = "done"
    /\ \A c \in Calls : run[c].pc \in {"idle", "done"}
    /\ pc' = [at |-> "finished", step |-> 0]
    /\ UNCHANGED <<hparams, Onnx, events, diff, run>>

----------------------------------------------------------------------------
(* Specifications *)

Build ==
    \/ EntryRaise \/ EntryOk \/ BuildFs2Raise \/ BuildFs2Ok
    \/ DiffConstruct \/ DiffLoadCkpt \/ DiffBuildSubmodules \/ DiffToDevice
    \/ ExportEncoder

(* export() with one forward call, for every speedup in Speedups *)
Next ==
    \/ Build
    \/ ForwardStart(1, Speedups)
    \/ PlmsIter(1)
    \/ NaiveIter(1)
    \/ ForwardFinish(1)
    \/ ExportReturn

Spec == Init /\ [][Next]_vars

(* two forward calls on the same model, both on the multi-step path *)
NextRuns ==
    \/ Build
    \/ \E c \in Calls : ForwardStart(c, MultiSpeedups)
    \/ \E c \in Calls : PlmsIter(c)
    \/ \E c \in Calls : ForwardFinish(c)
    \/ ExportReturn

SpecRuns == Init /\ [][NextRuns]_vars

(* two forward calls on the same model whose iterations interleave: each   *)
(* call serves its own request and draws its own noise                     *)
RequestOf(c) ==
    IF c = 1 THEN {[x0 |-> <<"randn", "a">>, cond |-> <<"rand", "a">>],
                   [x0 |-> <<"randn", "b">>, cond |-> <<"rand", "a">>],
                   [x0 |-> <<"randn", "b">>, cond |-> <<"rand", "b">>]}
    ELSE {[x0 |-> <<"randn", "b">>, cond |-> <<"rand", "a">>]}
DrawOf(c) == IF c = 1 THEN {<<"randn_like", "a">>} ELSE {<<"randn_like", "b">>}

NextInterleaved ==
    \/ Build
    \/ \E c \in Calls : ForwardBegin(c, Speedups, RequestOf(c))
    \/ \E c \in Calls : PlmsIter(c)
    \/ \E c \in Calls : NaiveIterDrawing(c, DrawOf(c))
    \/ \E c \in Calls : ForwardFinish(c)
    \/ ExportReturn

SpecInterleaved == Init /\ [][NextInterleaved]_vars

----------------------------------------------------------------------------
(* Properties *)

Ceil(a, b) == (a + b - 1) \div b
Min(a, b) == IF a < b THEN a ELSE b
Max(a, b) == IF a > b THEN a ELSE b

Started(c) == run[c].pc \in {"loop", "done"}
Done(c) == run[c].pc = "done"
MultiStep(c) == Started(c) /\ run[c].speedup > 1
Ancestral(c) == Started(c) /\ run[c].speedup = 1

(* the denoise_fn invocations a trace records *)
NetCalls(tr) ==
    Len(tr) + Cardinality({i \in 1..Len(tr) : tr[i].noise_pred_prev # None})

C2_Original ==
    \A c \in Calls :
        Started(c) =>
            \A i \in 1..Len(run[c].trace) :
                run[c].trace[i].t = (diff.K_step - 1) - (i - 1) * run[c].speedup

(* C2 amended: the loop visits the multiples of N below K in strictly      *)
(* descending order: it starts at N * floor((K-1)/N), decreases by N on    *)
(* each iteration and ends at 0.                                           *)
C2_Visits ==
    \A c \in Calls :
        LET r == run[c]
            K == diff.K_step
            N == r.speedup
        IN  Started(c) =>
              /\ \A i \in 1..Len(r.trace) :
                    r.trace[i].t = N * ((K - 1) \div N) - (i - 1) * N
              /\ \A i \in 2..Len(r.trace) : r.trace[i].t < r.trace[i - 1].t
              /\ Done(c) => r.trace[Len(r.trace)].t = 0

C2_Witness ==
    /\ Done(1) /\ run[1].speedup = 3 /\ diff.K_step = 9
    /\ Len(run[1].trace) = 3
    /\ run[1].trace[1].t = 6 /\ run[1].trace[2].t = 3 /\ run[1].trace[3].t = 0

(* C3: on the multi-step path iteration i computes noise_pred_prime with   *)
(* the stage min(i-1, 3) formula over the raw network outputs of this and  *)
(* the three preceding iterations; the stage-0 probe is the network output *)
(* at the extrapolated position x_pred and t_prev.                         *)
C3_StagedCombine ==
    \A c \in Calls :
        MultiStep(c) =>
            \A i \in 1..Len(run[c].trace) :
                LET rec == run[c].trace[i]
                    cur == Name("noise_pred", i)
                    h(j) == Name("noise_pred", i - j)
                IN  /\ rec.stage = Min(i - 1, 3)
                    /\ rec.noise_pred =
                          denoise_fn(diff.weights, Name("x", i - 1), rec.t, run[c].cond)
                    /\ i = 1 =>
                          /\ rec.x_pred = PLMSForward(diff.plms["alphas_cumprod"],
                                                      Name("x", 0), cur, rec.t, rec.t_prev)
                          /\ rec.noise_pred_prev =
                                denoise_fn(diff.weights, Name("x_pred", 1), rec.t_prev,
                                           run[c].cond)
                          /\ rec.noise_pred_prime =
                                Div(Add(cur, Name("noise_pred_prev", 1)), Const(2))
                    /\ i = 2 =>
                          rec.noise_pred_prime =
                              Div(Sub(Mul(cur, Const(3)), h(1)), Const(2))
                    /\ i = 3 =>
                          rec.noise_pred_prime =
                              Div(Add(Sub(Mul(cur, Const(23)), Mul(h(1), Const(16))),
                                      Mul(h(2), Const(5))),
                                  Const(12))
                    /\ i >= 4 =>
                          rec.noise_pred_prime =
                              Div(Sub(Add(Sub(Mul(cur, Const(55)), Mul(h(1), Const(59))),
                                          Mul(h(2), Const(37))),
                                      Mul(h(3), Const(9))),
                                  Const(24))

C3_Witness ==
    /\ MultiStep(1) /\ Len(run[1].trace) = 5
    /\ run[1].trace[5].stage = 3
    /\ run[1].trace[5].noise_list =
          <<Name("noise_pred", 2), Name("noise_pred", 3), Name("noise_pred", 4)>>

(* C4: on the multi-step path, after n iterations the stage counter and    *)
(* the history length both equal min(n, 3), and the history holds the raw  *)
(* network outputs of the last min(n, 3) iterations, oldest first.         *)
C4_History ==
    \A c \in Calls :
        MultiStep(c) =>
            LET r == run[c]
                n == Len(r.trace)
                m == Min(n, 3)
            IN  /\ r.stage = m
                /\ Len(r.noise_list) = m
                /\ \A j \in 1..m : r.noise_list[j] = Name("noise_pred", n - m + j)
                /\ \A i \in 1..n : /\ r.trace[i].stage = Len(r.trace[i].noise_list)
                                   /\ Len(r.trace[i].noise_list) = Min(i - 1, 3)

C4_Witness ==
    /\ MultiStep(1) /\ Len(run[1].trace) = 5 /\ run[1].stage = 3
    /\ run[1].noise_list =
          <<Name("noise_pred", 3), Name("noise_pred", 4), Name("noise_pred", 5)>>

(* C5: with N = 1 every iteration's update is one call of the ancestral    *)
(* predictor and the multi-step predictor and the history are never        *)
(* touched; with N > 1 every iteration's update is the multi-step          *)
(* predictor's forward(x, noise_pred_prime, t, max(t - N, 0)) and the      *)
(* ancestral predictor is never called.                                    *)
C5_Dispatch ==
    \A c \in Calls :
        LET r == run[c]
            n == Len(r.trace)
        IN  /\ Ancestral(c) =>
                  /\ r.naive_calls = n /\ r.plms_calls = 0
                  /\ r.stage = 0 /\ r.noise_list = <<>>
                  /\ \A i \in 1..n :
                        /\ r.trace[i].noise \in Draws
                        /\ r.trace[i].noise_pred_prime = None
                        /\ r.trace[i].x_next =
                              NaiveForward(diff.naive, Name("x", i - 1), Name("pred", i),
                                           r.trace[i].t, r.trace[i].noise)
                  /\ \A k \in 1..Len(r.exports) : r.exports[k].graph = "after"
            /\ MultiStep(c) =>
                  /\ r.naive_calls = 0
                  /\ r.plms_calls = n + (IF n > 0 THEN 1 ELSE 0)
                  /\ \A i \in 1..n :
                        /\ r.trace[i].noise = None
                        /\ r.trace[i].t_prev = Max(r.trace[i].t - r.speedup, 0)
                        /\ r.trace[i].x_next =
                              PLMSForward(diff.plms["alphas_cumprod"], Name("x", i - 1),
                                          Name("noise_pred_prime", i),
                                          r.trace[i].t, r.trace[i].t_prev)

C5_Witness ==
    /\ Done(1) /\ run[1].speedup = 1 /\ run[1].naive_calls = 4
    /\ run[1].plms_calls = 0

Positions(e) == {i \in 1..Len(events) : events[i] = e}

(* C6: build_submodules runs at most once, only after load_ckpt, and       *)
(* before every forward call and graph export made on the model; once the  *)
(* model is handed to export() it has run exactly once, and a forward call *)
(* only ever runs on a model whose sub-modules hold the migrated buffers.  *)
C6_MigrationOrder ==
    /\ Cardinality(Positions("build_submodules")) <= 1
    /\ diff.migrations = Cardinality(Positions("build_submodules"))
    /\ \A i \in Positions("build_submodules") :
          /\ \E j \in Positions("load_ckpt") : j < i
          /\ \A j \in Positions("forward") \cup Positions("export_encoder") : i < j
    /\ \A j \in Positions("forward") : \E i \in Positions("build_submodules") : i < j
    /\ pc.at \in {"encoder", "sample", "finished"} => diff.migrations = 1 /\ diff.loaded
    /\ \A c \in Calls :
          run[c].pc # "idle" \/ run[c].exports # <<>> =>
              /\ diff.migrations = 1
              /\ \A n \in MovedBuffers : diff.own[n] = Absent
              /\ \A n \in NaiveBuffers : diff.naive[n] # Absent
              /\ \A n \in PlmsBuffers : diff.plms[n] # Absent
              /\ \A n \in MelBuffers : diff.mel[n] # Absent
              /\ Positions("AttributeError") = {}

C6_Witness ==
    /\ pc.at = "finished" /\ Done(1) /\ diff.migrations = 1
    /\ Onnx /\ Len(run[1].exports) = 3
    /\ events[1] = "load_ckpt_fs2" /\ events[2] = "construct"
    /\ events[3] = "load_ckpt" /\ events[4] = "build_submodules"

(* C7: the step that runs build_submodules gives each of the eight buffers *)
(* to its sub-module with the value the orchestrator held, removes all     *)
(* eight from the orchestrator and changes nothing else on the model.      *)
C7_MigrationFrame ==
    [][diff'.migrations # diff.migrations =>
          /\ \A n \in NaiveBuffers : diff'.naive[n] = diff.own[n] /\ diff.own[n] # Absent
          /\ \A n \in PlmsBuffers : diff'.plms[n] = diff.own[n] /\ diff.own[n] # Absent
          /\ \A n \in MelBuffers : diff'.mel[n] = diff.own[n] /\ diff.own[n] # Absent
          /\ \A n \in MovedBuffers : diff'.own[n] = Absent
          /\ diff'.weights = diff.weights
          /\ diff'.K_step = diff.K_step
          /\ diff'.num_timesteps = diff.num_timesteps
          /\ diff'.mel_bins = diff.mel_bins
          /\ diff'.built = diff.built /\ diff'.loaded = diff.loaded
          /\ diff'.device = diff.device
          /\ run' = run /\ hparams' = hparams]_vars

C7_Witness ==
    /\ diff.migrations = 1
    /\ diff.naive["posterior_mean_coef2"] = Buf("posterior_mean_coef2", "ckpt")
    /\ diff.plms["alphas_cumprod"] = Buf("alphas_cumprod", "ckpt")
    /\ diff.mel["spec_max"] = Buf("spec_max", "ckpt")
    /\ diff.own["alphas_cumprod"] = Absent
    /\ diff.weights = <<"weights", "ckpt">>

ExportCount(c, g) ==
    Cardinality({k \in 1..Len(run[c].exports) : run[c].exports[k].graph = g})

(* C8 as stated: with Onnx true, for every N >= 1, a finished call has     *)
(* exported each of the three graphs exactly once.                         *)
C8_Original ==
    \A c \in Calls :
        Done(c) /\ Onnx =>
            \A g \in {"denoise", "pred", "after"} : ExportCount(c, g) = 1

(* C8 amended: with Onnx true and N > 1 a finished call has exported the   *)
(* denoising network before the loop, the multi-step predictor in the      *)
(* first (stage-0) iteration and the rescaler after the loop, each exactly *)
(* once; with N = 1 it has exported the rescaler only, once, after the     *)
(* loop.  No graph is exported twice, and none without Onnx.               *)
C8_Exports ==
    \A c \in Calls :
        LET r == run[c]
            n == Len(r.step_range)
            full == IF r.speedup > 1
                    THEN <<Export("denoise", 0), Export("pred", 1), Export("after", n + 1)>>
                    ELSE <<Export("after", n + 1)>>
        IN  /\ Started(c) /\ ~Onnx => r.exports = <<>>
            /\ Started(c) /\ Onnx =>
                  /\ Len(r.exports) <= Len(full)
                  /\ \A k \in 1..Len(r.exports) : r.exports[k] = full[k]
                  /\ r.speedup > 1 => ExportCount(c, "pred") = Min(Len(r.trace), 1)
            /\ Done(c) /\ Onnx => r.exports = full

C8_Witness ==
    /\ Onnx /\ Done(1) /\ run[1].speedup = 2 /\ diff.K_step = 9
    /\ run[1].exports = <<Export("denoise", 0), Export("pred", 1), Export("after", 6)>>

(* C9: in the ancestral predictor's step at t = 0 the result is the        *)
(* posterior mean alone, whatever noise the call draws; at t > 0 two       *)
(* different draws give two different results.  Stated of the iteration a  *)
(* call has just completed, in every reachable state.                      *)
C9_TerminalStep ==
    \A c \in Calls :
        Ancestral(c) /\ run[c].trace # <<>> =>
            LET i == Len(run[c].trace)
                rec == run[c].trace[i]
                nb == diff.naive
                pred == Name("pred", i)
                x_recon ==
                    Clamp(Sub(Mul(extract(nb["sqrt_recip_alphas_cumprod"], rec.t), rec.x),
                              Mul(extract(nb["sqrt_recipm1_alphas_cumprod"], rec.t), pred)),
                          Const(-1), Const(1))
                mean ==
                    Add(Mul(extract(nb["posterior_mean_coef1"], rec.t), x_recon),
                        Mul(extract(nb["posterior_mean_coef2"], rec.t), rec.x))
                out(z) == NaiveForward(nb, rec.x, pred, rec.t, z)
            IN  /\ rec.x_next = out(rec.noise)
                /\ rec.t = 0 => \A z \in Draws : out(z) = mean
                /\ rec.t > 0 =>
                      /\ \A z \in Draws : out(z) # mean
                      /\ \A z1, z2 \in Draws : z1 # z2 => out(z1) # out(z2)

C9_Witness ==
    /\ Done(1) /\ run[1].speedup = 1 /\ Len(run[1].trace) = 3
    /\ run[1].trace[2].t = 1 /\ run[1].trace[2].noise = <<"randn_like", "b">>
    /\ run[1].trace[3].t = 0 /\ run[1].trace[3].noise = <<"randn_like", "b">>

(* C10: two multi-step calls on the same model with the same speedup, the  *)
(* same initial x and the same condition go through the same iterations    *)
(* (t, t_prev, stage, history and every computed tensor) and return the    *)
(* same features; no iteration draws noise.                                *)
C10_Deterministic ==
    \A c1, c2 \in Calls :
        /\ MultiStep(c1) /\ MultiStep(c2)
        /\ run[c1].speedup = run[c2].speedup
        /\ run[c1].x0 = run[c2].x0
        /\ run[c1].cond = run[c2].cond
        => /\ \A i \in 1..Min(Len(run[c1].trace), Len(run[c2].trace)) :
                  /\ run[c1].trace[i] = run[c2].trace[i]
                  /\ run[c1].trace[i].noise = None
           /\ run[c1].step_range = run[c2].step_range
           /\ Done(c1) /\ Done(c2) => run[c1].mel = run[c2].mel /\ run[c1].x = run[c2].x

C10_Witness ==
    /\ Done(1) /\ Done(2)
    /\ run[1].speedup = 2 /\ run[2].speedup = 2
    /\ run[1].x0 = run[2].x0 /\ run[1].cond = run[2].cond
    /\ Len(run[1].trace) = 5 /\ Len(run[2].trace) = 5
    /\ run[1].mel = run[2].mel /\ run[1].mel # None

(* C11: with use_midi true or absent, or use_pitch_embed false, export()   *)
(* raises NotImplementedError as its first step: no model is built, no     *)
(* checkpoint loaded, no graph exported and no forward call made; with a   *)
(* valid MIDI-less configuration but an f0_embed_type other than discrete  *)
(* or continuous, the encoder constructor raises ValueError before any     *)
(* checkpoint load, migration or export.  After a raise export() takes no  *)
(* further step.                                                           *)
C11_FatalConfig ==
    LET midi == hparams.use_midi \in {"absent", "true"} \/ ~hparams.use_pitch_embed
        f0bad == hparams.f0_embed_type \notin {"discrete", "continuous"}
        untouched == /\ diff = NoModel
                     /\ \A c \in Calls : run[c] = IdleRun
    IN  /\ midi =>
              /\ pc.at \in {"entry", "raised"}
              /\ untouched
              /\ events = IF pc.at = "raised" THEN <<"NotImplementedError">> ELSE <<>>
        /\ ~midi /\ f0bad =>
              /\ pc.at \in {"entry", "build_fs2", "raised"}
              /\ untouched
              /\ events = IF pc.at = "raised" THEN <<"ValueError">> ELSE <<>>
        /\ pc.at = "raised" => ~ENABLED Next

C11_Witness ==
    /\ pc.at = "raised"
    /\ hparams.use_midi = "absent" /\ hparams.use_pitch_embed
    /\ events = <<"NotImplementedError">>

(* C12: in every iteration a sampling run enters, the indices used on the  *)
(* coefficient arrays satisfy 0 <= t_prev <= t < L, L being the length of  *)
(* the arrays (hparams['timesteps']), whatever K_step and speedup are.     *)
(* The iterations entered are the completed ones and the one a raise       *)
(* stopped.                                                                *)
C12_Original ==
    \A c \in Calls :
        LET r == run[c]
            L == diff.num_timesteps
            entered == (1..Len(r.trace)) \cup
                       (IF r.pc = "raised" /\ r.idx <= Len(r.step_range)
                        THEN {r.idx} ELSE {})
        IN  \A i \in entered :
                LET t == r.step_range[i]
                    t_prev == IF UsePlms(r.speedup) THEN TPrev(t, r.speedup) ELSE t
                IN  0 <= t_prev /\ t_prev <= t /\ t < L

(* C14: a multi-step run that has gone through its loop made its last      *)
(* iteration with t = 0 and t_prev = 0; that iteration's position update   *)
(* returns the x it was given, so the x handed to the rescaler is the x at *)
(* the start of the last iteration and carries neither that iteration's    *)
(* network output nor its noise_pred_prime; in every earlier iteration     *)
(* t_prev is the next iteration's t.                                       *)
C14_LastStepIdentity ==
    \A c \in Calls :
        LET r == run[c]
            n == Len(r.trace)
        IN  MultiStep(c) /\ r.idx > Len(r.step_range) =>
              /\ n = Len(r.step_range) /\ n >= 1
              /\ r.trace[n].t = 0 /\ r.trace[n].t_prev = 0
              /\ r.trace[n].x = Name("x", n - 1)
              /\ r.trace[n].x_next = r.trace[n].x
              /\ r.x = Name("x", n)
              /\ Done(c) => r.mel = MelForward(diff.mel, r.x)
              /\ \A i \in 1..(n - 1) : r.trace[i].t_prev = r.trace[i + 1].t

C14_Witness ==
    /\ Done(1) /\ run[1].speedup = 3 /\ diff.K_step = 8
    /\ Len(run[1].trace) = 3
    /\ run[1].trace[2].t_prev = 0 /\ run[1].trace[3].t = 0
    /\ run[1].trace[3].stage = 2
    /\ run[1].trace[3].x_next = Name("x", 2)

(* iteration i of a forward call as a function of the call's own speedup,  *)
(* condition and noise draw and of the model alone                         *)
AloneIteration(speedup, cond, i, noise) ==
    LET t == StepRange(diff.K_step, speedup)[i]
        x == Name("x", i - 1)
        np == Name("noise_pred", i)
        alphas == diff.plms["alphas_cumprod"]
    IN  IF speedup > 1
        THEN LET t_prev == Max(t - speedup, 0)
                 stage == Min(i - 1, 3)
                 hist == [j \in 1..stage |-> Name("noise_pred", i - 1 - stage + j)]
             IN  [t |-> t, t_prev |-> t_prev, stage |-> stage, noise_list |-> hist,
                  x |-> x,
                  noise_pred |-> denoise_fn(diff.weights, x, t, cond),
                  x_pred |-> IF i = 1 THEN PLMSForward(alphas, x, np, t, t_prev)
                             ELSE None,
                  noise_pred_prev |->
                      IF i = 1
                      THEN denoise_fn(diff.weights, Name("x_pred", i), t_prev, cond)
                      ELSE None,
                  noise_pred_prime |->
                      IF i = 1 THEN predict_stage0(np, Name("noise_pred_prev", i))
                      ELSE IF i = 2 THEN predict_stage1(np, hist)
                      ELSE IF i = 3 THEN predict_stage2(np, hist)
                      ELSE predict_stage3(np, hist),
                  noise |-> None,
                  x_next |-> PLMSForward(alphas, x, Name("noise_pred_prime", i),
                                         t, t_prev)]
        ELSE [t |-> t, t_prev |-> t, stage |-> 0, noise_list |-> <<>>, x |-> x,
              noise_pred |-> denoise_fn(diff.weights, x, t, cond),
              x_pred |-> None, noise_pred_prev |-> None, noise_pred_prime |-> None,
              noise |-> noise,
              x_next |-> NaiveForward(diff.naive, x, Name("pred", i), t, noise)]

====
